---- MODULE Spec2Model ----
(***************************************************************************)
(* Authorization and document-lifecycle engine of the CDE backend          *)
(* (backend/app/core/rbac.py, backend/app/core/middleware.py,              *)
(* backend/app/routers/documents.py).                                      *)
(*                                                                         *)
(* Strings that the code parses or formats (revision identifiers, the      *)
(* requested target state) are sequences of one-character strings, so that *)
(* re.match, int(), str.upper(), str.strip() and the "02d" format are      *)
(* computed character by character.                                        *)
(***************************************************************************)
EXTENDS Integers, Sequences, FiniteSets, TLC

VARIABLES docs, versions, nextId, inflight, resp, emitted, decision

vars == <<docs, versions, nextId, inflight, resp, emitted, decision>>

(***************************************************************************)
(* Bounds of the model.                                                    *)
(***************************************************************************)
\* number of document ids handed out before uploads stop
MaxDocs == 1
\* number of promotion requests that may be between their read and commit
MaxInflight == 2
\* rows of document_versions per document up to which the service with
\* every input (Spec) admits promotion requests
MaxVersions == 2
\* the same for the lifecycle of one author's document (SpecLifecycle)
MaxHistory == 6
\* the promotion requests in flight at once when a backlog has built up
\* (SpecBacklog)
MaxBacklog == 100

None == "None"

(***************************************************************************)
(* Characters.                                                             *)
(***************************************************************************)
LowerCase == <<"a","b","c","d","e","f","g","h","i","j","k","l","m",
               "n","o","p","q","r","s","t","u","v","w","x","y","z">>
UpperCase == <<"A","B","C","D","E","F","G","H","I","J","K","L","M",
               "N","O","P","Q","R","S","T","U","V","W","X","Y","Z">>
DigitChars == <<"0","1","2","3","4","5","6","7","8","9">>

Range(s) == {s[i] : i \in DOMAIN s}

IsLetter(c) == c \in Range(LowerCase) \cup Range(UpperCase)
IsDigit(c) == c \in Range(DigitChars)

\* str.upper() on one character
UpperChar(c) ==
    IF c \in Range(LowerCase)
    THEN UpperCase[CHOOSE i \in DOMAIN LowerCase : LowerCase[i] = c]
    ELSE c

\* str.upper()
Upper(s) == [i \in DOMAIN s |-> UpperChar(s[i])]

\* str.strip(): drops leading and trailing blanks
RECURSIVE LStrip(_)
LStrip(s) == IF s # <<>> /\ Head(s) = " " THEN LStrip(Tail(s)) ELSE s

RECURSIVE RStrip(_)
RStrip(s) ==
    IF s # <<>> /\ s[Len(s)] = " " THEN RStrip(SubSeq(s, 1, Len(s) - 1)) ELSE s

Strip(s) == RStrip(LStrip(s))

\* int() of a non-empty sequence of decimal digits
DigitVal(c) == (CHOOSE i \in DOMAIN DigitChars : DigitChars[i] = c) - 1

RECURSIVE ParseInt(_)
ParseInt(ds) ==
    IF ds = <<>> THEN 0
    ELSE 10 * ParseInt(SubSeq(ds, 1, Len(ds) - 1)) + DigitVal(ds[Len(ds)])

\* str(n) for n >= 0
RECURSIVE IntToStr(_)
IntToStr(n) ==
    IF n < 10 THEN <<DigitChars[n + 1]>>
    ELSE IntToStr(n \div 10) \o <<DigitChars[(n % 10) + 1]>>

\* f"{n:02d}": at least two digits, padded on the left with zeros
Format02d(n) == IF n < 10 THEN <<"0">> \o IntToStr(n) ELSE IntToStr(n)

(***************************************************************************)
(* re.match(r'^([A-Za-z]+)(\d+)$', revision): the two groups, or no match. *)
(***************************************************************************)
RECURSIVE LeadingLetters(_)
LeadingLetters(s) ==
    IF s # <<>> /\ IsLetter(Head(s)) THEN 1 + LeadingLetters(Tail(s)) ELSE 0

RevisionMatch(s) ==
    LET k == LeadingLetters(s)
        rest == SubSeq(s, k + 1, Len(s))
    IN  IF k >= 1 /\ rest # <<>> /\ \A i \in DOMAIN rest : IsDigit(rest[i])
        THEN [matched |-> TRUE, prefix |-> SubSeq(s, 1, k), num |-> rest]
        ELSE [matched |-> FALSE, prefix |-> <<>>, num |-> <<>>]

(***************************************************************************)
(* rbac.py                                                                 *)
(***************************************************************************)
ADMIN == "Admin"
PROJECT_MANAGER == "Project Manager"
VIEWER == "Viewer"
UserRole == {ADMIN, PROJECT_MANAGER, VIEWER}

WIP == "S0"
TENDER == "S1"
CONSTRUCTION == "S2"
INFO_APPROVAL == "S3"
PUBLISHED == "S4"
ARCHIVED == "S5"
DocumentStatus == {WIP, TENDER, CONSTRUCTION, INFO_APPROVAL, PUBLISHED, ARCHIVED}

Permission == {"view", "download", "upload", "update", "delete", "promote", "share"}

\* ROLE_PERMISSIONS with Permission.DELETE in the Project Manager's set
ROLE_PERMISSIONS_pm_deletes ==
    [r \in UserRole |->
        CASE r = ADMIN -> {"view", "download", "upload", "update", "delete",
                           "promote", "share"}
          [] r = PROJECT_MANAGER -> {"view", "download", "upload", "update", "delete",
                                     "promote", "share"}
          [] r = VIEWER -> {"view", "download"}]

ROLE_PERMISSIONS ==
    [r \in UserRole |->
        CASE r = ADMIN -> {"view", "download", "upload", "update", "delete",
                           "promote", "share"}
          [] r = PROJECT_MANAGER -> {"view", "download", "upload", "update",
                                     "promote", "share"}
          [] r = VIEWER -> {"view", "download"}]

\* ROLE_PERMISSIONS.get(user_role, set())
has_permission(user_role, permission) ==
    IF user_role \in DOMAIN ROLE_PERMISSIONS
    THEN permission \in ROLE_PERMISSIONS[user_role]
    ELSE FALSE

\* can_view_document with WIP documents shown to Admin only
can_view_document_wip_admin_only(user_id, user_role, document_status, document_author_id) ==
    IF user_role = ADMIN THEN TRUE
    ELSE document_status # WIP

can_view_document(user_id, user_role, document_status, document_author_id) ==
    IF user_role = ADMIN THEN TRUE
    ELSE IF document_status # WIP THEN TRUE
    ELSE document_author_id = user_id

can_download_document(user_id, user_role, document_status, document_author_id) ==
    IF ~has_permission(user_role, "download") THEN FALSE
    ELSE can_view_document(user_id, user_role, document_status, document_author_id)

\* can_update_document without the has_permission check
can_update_document_without_permission(user_id, user_role, document_status, document_author_id) ==
    IF user_role = ADMIN THEN TRUE
    ELSE IF document_status = WIP THEN document_author_id = user_id
    ELSE IF user_role = PROJECT_MANAGER THEN TRUE
    ELSE FALSE

can_update_document(user_id, user_role, document_status, document_author_id) ==
    IF ~has_permission(user_role, "update") THEN FALSE
    ELSE IF user_role = ADMIN THEN TRUE
    ELSE IF document_status = WIP THEN document_author_id = user_id
    ELSE IF user_role = PROJECT_MANAGER THEN TRUE
    ELSE FALSE

\* can_delete_document with the author allowed to delete
can_delete_document_author_allowed(user_id, user_role, document_status, document_author_id) ==
    user_role = ADMIN \/ document_author_id = user_id

can_delete_document(user_id, user_role, document_status, document_author_id) ==
    IF ~has_permission(user_role, "delete") THEN FALSE
    ELSE user_role = ADMIN

\* can_promote_document with archiving left to Admin
can_promote_document_archive_admin_only(user_id, user_role, document_status, document_author_id, target_status) ==
    IF ~has_permission(user_role, "promote") THEN FALSE
    ELSE IF user_role = ADMIN THEN TRUE
    ELSE IF target_status = ARCHIVED THEN FALSE
    ELSE IF document_status = WIP THEN document_author_id = user_id
    ELSE IF user_role = PROJECT_MANAGER THEN TRUE
    ELSE FALSE

can_promote_document(user_id, user_role, document_status, document_author_id, target_status) ==
    IF ~has_permission(user_role, "promote") THEN FALSE
    ELSE IF user_role = ADMIN THEN TRUE
    ELSE IF document_status = WIP THEN document_author_id = user_id
    ELSE IF user_role = PROJECT_MANAGER THEN TRUE
    ELSE FALSE

(***************************************************************************)
(* documents.py, promote_document: the lifecycle state machine.            *)
(***************************************************************************)
valid_statuses == {"S0", "S1", "S2", "S3", "S4", "S5"}

\* valid_transitions with Archived also listed for Information Approval
valid_transitions_S3_to_S5 ==
    [s \in valid_statuses |->
        CASE s = "S0" -> {"S1", "S2", "S3"}
          [] s = "S1" -> {"S2", "S3", "S4"}
          [] s = "S2" -> {"S3", "S4"}
          [] s = "S3" -> {"S4", "S5"}
          [] s = "S4" -> {"S5"}
          [] s = "S5" -> {}]

valid_transitions ==
    [s \in valid_statuses |->
        CASE s = "S0" -> {"S1", "S2", "S3"}
          [] s = "S1" -> {"S2", "S3", "S4"}
          [] s = "S2" -> {"S3", "S4"}
          [] s = "S3" -> {"S4"}
          [] s = "S4" -> {"S5"}
          [] s = "S5" -> {}]

\* ActionType with Tender left out of the sources of a publish
ActionType_publish_from_S2_S3(current_status, target_status) ==
    IF current_status = "S0" /\ target_status \in {"S1", "S2", "S3"} THEN "share"
    ELSE IF current_status \in {"S2", "S3"} /\ target_status = "S4" THEN "publish"
    ELSE IF current_status = "S4" /\ target_status = "S5" THEN "archive"
    ELSE IF current_status \in {"S1", "S2", "S3"} /\ target_status \in {"S2", "S3"}
         THEN "coordinate"
    ELSE "null"

\* action_type; "null" is Python's None
ActionType(current_status, target_status) ==
    IF current_status = "S0" /\ target_status \in {"S1", "S2", "S3"} THEN "share"
    ELSE IF current_status \in {"S1", "S2", "S3"} /\ target_status = "S4" THEN "publish"
    ELSE IF current_status = "S4" /\ target_status = "S5" THEN "archive"
    ELSE IF current_status \in {"S1", "S2", "S3"} /\ target_status \in {"S2", "S3"}
         THEN "coordinate"
    ELSE "null"

\* NewRevision without prefix.upper() in the publish branch
NewRevision_publish_keeps_case(action_type, increment_revision, revision) ==
    LET match == RevisionMatch(revision)
        prefix == match.prefix
        num_int == ParseInt(match.num)
    IN  IF action_type = "publish"
        THEN IF match.matched
             THEN IF Upper(prefix) = <<"P">> THEN <<"C">> \o Format02d(num_int)
                  ELSE IF Upper(prefix) = <<"A">> THEN <<"C">> \o Format02d(num_int)
                  ELSE prefix \o Format02d(num_int + 1)
             ELSE <<"C", "0", "1">>
        ELSE IF increment_revision
        THEN IF match.matched
             THEN Upper(prefix) \o Format02d(num_int + 1)
             ELSE <<"P", "0", "1">>
        ELSE revision

\* NewRevision with the fallback of the publish branch (C01) in the increment
\* branch too
NewRevision_increment_falls_back_to_C01(action_type, increment_revision, revision) ==
    LET match == RevisionMatch(revision)
        prefix == match.prefix
        num_int == ParseInt(match.num)
    IN  IF action_type = "publish"
        THEN IF match.matched
             THEN IF Upper(prefix) = <<"P">> THEN <<"C">> \o Format02d(num_int)
                  ELSE IF Upper(prefix) = <<"A">> THEN <<"C">> \o Format02d(num_int)
                  ELSE Upper(prefix) \o Format02d(num_int + 1)
             ELSE <<"C", "0", "1">>
        ELSE IF increment_revision
        THEN IF match.matched
             THEN Upper(prefix) \o Format02d(num_int + 1)
             ELSE <<"C", "0", "1">>
        ELSE revision

\* new_rev
NewRevision(action_type, increment_revision, revision) ==
    LET match == RevisionMatch(revision)
        prefix == match.prefix
        num_int == ParseInt(match.num)
    IN  IF action_type = "publish"
        THEN IF match.matched
             THEN IF Upper(prefix) = <<"P">> THEN <<"C">> \o Format02d(num_int)
                  ELSE IF Upper(prefix) = <<"A">> THEN <<"C">> \o Format02d(num_int)
                  ELSE Upper(prefix) \o Format02d(num_int + 1)
             ELSE <<"C", "0", "1">>
        ELSE IF increment_revision
        THEN IF match.matched
             THEN Upper(prefix) \o Format02d(num_int + 1)
             ELSE <<"P", "0", "1">>
        ELSE revision

status_descriptions ==
    [s \in valid_statuses |->
        CASE s = "S0" -> "Work in Progress"
          [] s = "S1" -> "Tender/Shared"
          [] s = "S2" -> "Construction"
          [] s = "S3" -> "Information Approval"
          [] s = "S4" -> "Published"
          [] s = "S5" -> "Archived"]

\* AutoComment whose publish text leaves the revision out
AutoComment_publish_without_revision(comment, action_type, current_status, target_status, new_rev) ==
    IF comment # <<>> THEN comment
    ELSE IF action_type = "share"
         THEN <<"Shared for coordination", " - ", status_descriptions[target_status]>>
    ELSE IF action_type = "publish"
         THEN <<"Published for construction", " - ", status_descriptions[target_status]>>
    ELSE IF action_type = "archive"
         THEN <<"Archived", " - ", status_descriptions[target_status]>>
    ELSE IF action_type = "coordinate"
         THEN <<"Coordinated", " - ", status_descriptions[target_status]>>
    ELSE <<"Status changed from ", current_status, " to ", target_status>>

\* the comment stored with the version; a text is the sequence of the pieces
\* the f-string joins, <<>> is None or the empty string
AutoComment(comment, action_type, current_status, target_status, new_rev) ==
    IF comment # <<>> THEN comment
    ELSE IF action_type = "share"
         THEN <<"Shared for coordination", " - ", status_descriptions[target_status]>>
    ELSE IF action_type = "publish"
         THEN <<"Published for construction", " - ", status_descriptions[target_status],
                " (", "Rev ">> \o new_rev \o <<")">>
    ELSE IF action_type = "archive"
         THEN <<"Archived", " - ", status_descriptions[target_status]>>
    ELSE IF action_type = "coordinate"
         THEN <<"Coordinated", " - ", status_descriptions[target_status]>>
    ELSE <<"Status changed from ", current_status, " to ", target_status>>

(***************************************************************************)
(* The principals handed over by the authentication layer, and the inputs  *)
(* of the requests.                                                        *)
(***************************************************************************)
Users == {"u-admin", "u-pm", "u-viewer"}

RoleOf(u) ==
    CASE u = "u-admin" -> ADMIN
      [] u = "u-pm" -> PROJECT_MANAGER
      [] u = "u-viewer" -> VIEWER

DocIds == 1..MaxDocs
Slots == 1..MaxInflight

Names == {"A-101.pdf", "A-102.pdf"}

\* workflow.state as sent by the client
StateInputs ==
    {<<"S", "0">>, <<"S", "1">>, <<"S", "2">>, <<"S", "3">>, <<"S", "4">>,
     <<"S", "5">>, <<"s", "4">>, <<" ", "S", "1">>, <<"S", "9">>}

\* workflow.comment: <<>> is an absent or empty comment
CommentInputs == {<<>>, <<"Approved by lead">>}

\* the characters of a status value, and DocumentStatus(text): the status whose
\* value is the text (Python raises ValueError when there is none)
StatusOrder == <<"S0", "S1", "S2", "S3", "S4", "S5">>

StatusText(s) == <<"S", DigitChars[CHOOSE i \in DOMAIN StatusOrder : StatusOrder[i] = s]>>

IsStatusText(t) == \E s \in DocumentStatus : StatusText(s) = t

StatusOfText(t) == CHOOSE s \in DocumentStatus : StatusText(s) = t

(***************************************************************************)
(* State.                                                                  *)
(*   docs      the documents table: id -> row                              *)
(*   versions  the document_versions table: document id -> the rows in     *)
(*             order of creation                                           *)
(*   nextId    number of ids uuid4() has handed out                        *)
(*   inflight  promotion requests that have computed their transition on   *)
(*             the row they read and have not reached db.commit() yet      *)
(*   resp      the response of the handler that finished in the last step, *)
(*             until it is sent (NoResp when nothing is waiting)           *)
(*   emitted   the audit_log calls that handler made                       *)
(*   decision  the last call of a predicate of rbac.py made on its own, of  *)
(*             require_document_permission or of the filter of             *)
(*             get_documents, with its arguments and its result (SpecRbac) *)
(***************************************************************************)
Idle == [pc |-> "idle"]

NoDecision == [fn |-> "none"]

NoResp == [op |-> "none", user |-> "", doc |-> 0, code |-> 0, detail |-> "",
           previous_status |-> "", target_status |-> "", new_revision |-> <<>>,
           action |-> "", comment |-> <<>>, message |-> "", target_text |-> <<>>]

Response(op, u, d, code, detail) ==
    [NoResp EXCEPT !.op = op, !.user = u, !.doc = d, !.code = code, !.detail = detail]

\* the detail texts of the HTTPException(status_code=403) of each handler
ViewDenied ==
    "You do not have permission to view this document. WIP (S0) documents are only visible to their author and Admin users."
UploadDenied ==
    "Your role does not have permission to upload documents."
UpdateDenied ==
    "You do not have permission to update this document. Only the document author can update WIP documents."
DeleteDenied ==
    "You do not have permission to delete this document. Only Admin users can delete documents."
PromoteDenied ==
    "You do not have permission to promote this document. Only the document author can promote WIP documents."
DownloadDenied ==
    "You do not have permission to download this document. WIP documents are only accessible to their author and Admin users."

\* raise HTTPException(status_code=403, detail=message)
Denied(op, u, d, message) ==
    [Response(op, u, d, 403, "PermissionDenied") EXCEPT !.message = message]

\* audit_log(): the entry, and whether the write to the log file succeeded
\* (a failed write is printed and swallowed)
audit_log(action, u, resource_id, details, success, status_code, written) ==
    [action |-> action, user_id |-> u, user_role |-> RoleOf(u),
     resource_id |-> resource_id, details |-> details,
     success |-> success, status_code |-> status_code, written |-> written]

NoDetails == [none |-> TRUE]

\* the tables as create_all() leaves them
InitEmpty ==
    /\ docs = <<>>
    /\ versions = <<>>
    /\ nextId = 0
    /\ inflight = [r \in Slots |-> Idle]
    /\ resp = NoResp
    /\ emitted = <<>>
    /\ decision = NoDecision

\* init_db.py: a sample document stored with its one version row
SeedDocument(status, revision, author_id) ==
    [name |-> "A-101.pdf", revision |-> revision, status |-> status,
     author_id |-> author_id]

SeedVersion(status, revision, author_id) ==
    [revision |-> revision, author_id |-> author_id,
     comment |-> <<"Final coordination issue">>, status |-> status]

InitSeeded(status, revision, author_id) ==
    /\ docs = <<SeedDocument(status, revision, author_id)>>
    /\ versions = <<(<<SeedVersion(status, revision, author_id)>>)>>
    /\ nextId = 1
    /\ inflight = [r \in Slots |-> Idle]
    /\ resp = NoResp
    /\ emitted = <<>>
    /\ decision = NoDecision

\* revision strings a stored row may carry (the column is free text)
RevisionInputs ==
    {<<"P", "0", "1">>, <<"P", "0", "2">>, <<"P", "0", "3">>, <<"A", "0", "5">>,
     <<"X", "0", "7">>, <<"x", "0", "7">>, <<"p", "0", "2">>, <<"C", "9", "9">>,
     <<"P", "A", "3">>, <<"P", "7">>, <<"R", "E", "V", "-", "X">>, <<"0", "1">>, <<>>}

\* author_id of a stored row; "" is doc.author_id or "" for a row without author
AuthorInputs == Users \cup {""}

Init ==
    \/ InitEmpty
    \/ \E status \in DocumentStatus, author_id \in AuthorInputs :
          InitSeeded(status, <<"P", "0", "1">>, author_id)
    \/ \E status \in {"S0", "S1", "S3"}, revision \in RevisionInputs :
          InitSeeded(status, revision, "u-pm")

\* a function with one more element, and with one element removed
Extend(f, k, v) == [x \in DOMAIN f \cup {k} |-> IF x = k THEN v ELSE f[x]]
Remove(f, k) == [x \in DOMAIN f \ {k} |-> f[x]]

(***************************************************************************)
(* upload_document                                                         *)
(***************************************************************************)
NewDocument(u, name) ==
    [name |-> name, revision |-> <<"P", "0", "1">>, status |-> "S0", author_id |-> u]

\* InitialVersion numbered P00
InitialVersion_P00(u) ==
    [revision |-> <<"P", "0", "0">>, author_id |-> u,
     comment |-> <<"Initial upload">>, status |-> "S0"]

InitialVersion(u) ==
    [revision |-> <<"P", "0", "1">>, author_id |-> u,
     comment |-> <<"Initial upload">>, status |-> "S0"]

UploadDocument(u, name, fault, written) ==
    /\ UNCHANGED inflight
    /\ IF "upload" \notin ROLE_PERMISSIONS[RoleOf(u)]
       THEN /\ emitted' = <<audit_log("document.upload.denied", u, 0, NoDetails,
                                      FALSE, 403, written)>>
            /\ resp' = Denied("upload", u, 0, UploadDenied)
            /\ UNCHANGED <<docs, versions, nextId>>
       ELSE IF fault = "file"
       THEN \* the file could not be saved
            /\ emitted' = <<audit_log("document.upload.failed", u, 0, NoDetails,
                                      FALSE, 500, written)>>
            /\ resp' = Response("upload", u, 0, 500, "FileSaveFailed")
            /\ UNCHANGED <<docs, versions, nextId>>
       ELSE IF fault = "project"
       THEN /\ emitted' = <<audit_log("document.upload.invalid_project", u, 0,
                                      NoDetails, FALSE, 400, written)>>
            /\ resp' = Response("upload", u, 0, 400, "ProjectNotFound")
            /\ UNCHANGED <<docs, versions, nextId>>
       ELSE IF fault = "db"
       THEN \* db.rollback(): neither the document nor the version is stored
            /\ emitted' = <<audit_log("document.upload.db_failed", u, 0, NoDetails,
                                      FALSE, 500, written)>>
            /\ resp' = Response("upload", u, 0, 500, "PersistenceFailure")
            /\ UNCHANGED <<docs, versions, nextId>>
       ELSE /\ nextId < MaxDocs
            /\ nextId' = nextId + 1
            /\ docs' = Extend(docs, nextId + 1, NewDocument(u, name))
            /\ versions' = Extend(versions, nextId + 1, <<InitialVersion(u)>>)
            /\ emitted' = <<audit_log("document.upload", u, nextId + 1, NoDetails,
                                      TRUE, 200, written)>>
            /\ resp' = [Response("upload", u, nextId + 1, 201, "Created")
                          EXCEPT !.new_revision = <<"P", "0", "1">>,
                                 !.target_status = "S0"]

(***************************************************************************)
(* get_document                                                            *)
(***************************************************************************)
GetDocument(u, d, written) ==
    /\ UNCHANGED <<docs, versions, nextId, inflight>>
    /\ IF d \notin DOMAIN docs
       THEN /\ emitted' = <<audit_log("document.view.not_found", u, d, NoDetails,
                                      FALSE, 404, written)>>
            /\ resp' = Response("view", u, d, 404, "NotFound")
       ELSE IF ~can_view_document(u, RoleOf(u), docs[d].status, docs[d].author_id)
       THEN /\ emitted' = <<>>
            /\ resp' = Denied("view", u, d, ViewDenied)
       ELSE /\ emitted' = <<audit_log("document.view", u, d, NoDetails,
                                      TRUE, 200, written)>>
            /\ resp' = [Response("view", u, d, 200, "OK")
                          EXCEPT !.new_revision = docs[d].revision,
                                 !.target_status = docs[d].status]

(***************************************************************************)
(* download_document                                                       *)
(***************************************************************************)
DownloadDocument(u, d, file_present, written) ==
    /\ UNCHANGED <<docs, versions, nextId, inflight>>
    /\ IF d \notin DOMAIN docs
       THEN /\ emitted' = <<audit_log("document.download.not_found", u, d, NoDetails,
                                      FALSE, 404, written)>>
            /\ resp' = Response("download", u, d, 404, "NotFound")
       ELSE IF ~can_download_document(u, RoleOf(u), docs[d].status, docs[d].author_id)
       THEN /\ emitted' = <<audit_log("document.download.denied", u, d, NoDetails,
                                      FALSE, 403, written)>>
            /\ resp' = Denied("download", u, d, DownloadDenied)
       ELSE /\ emitted' = <<audit_log("document.download", u, d, NoDetails,
                                      TRUE, 200, written)>>
            /\ resp' = IF file_present
                       THEN Response("download", u, d, 200, "OK")
                       ELSE Response("download", u, d, 404, "FileNotFound")

(***************************************************************************)
(* update_document                                                         *)
(***************************************************************************)
\* UpdateDocument when an edit puts the document back to Work in Progress
UpdateDocument_resets_stage(u, d, name, db_ok) ==
    /\ UNCHANGED <<versions, nextId, inflight>>
    /\ emitted' = <<>>
    /\ IF d \notin DOMAIN docs
       THEN /\ resp' = Response("update", u, d, 404, "NotFound")
            /\ UNCHANGED docs
       ELSE IF ~can_update_document(u, RoleOf(u), docs[d].status, docs[d].author_id)
       THEN /\ resp' = Denied("update", u, d, UpdateDenied)
            /\ UNCHANGED docs
       ELSE IF ~db_ok
       THEN /\ resp' = Response("update", u, d, 500, "ServerError")
            /\ UNCHANGED docs
       ELSE /\ docs' = IF name # None
                       THEN [docs EXCEPT ![d].name = name, ![d].status = "S0"]
                       ELSE docs
            /\ resp' = [Response("update", u, d, 200, "OK")
                          EXCEPT !.new_revision = docs[d].revision,
                                 !.target_status = "S0"]

UpdateDocument(u, d, name, db_ok) ==
    /\ UNCHANGED <<versions, nextId, inflight>>
    /\ emitted' = <<>>
    /\ IF d \notin DOMAIN docs
       THEN /\ resp' = Response("update", u, d, 404, "NotFound")
            /\ UNCHANGED docs
       ELSE IF ~can_update_document(u, RoleOf(u), docs[d].status, docs[d].author_id)
       THEN /\ resp' = Denied("update", u, d, UpdateDenied)
            /\ UNCHANGED docs
       ELSE IF ~db_ok
       THEN \* db.commit() raises: no handler, the session is closed unsaved
            /\ resp' = Response("update", u, d, 500, "ServerError")
            /\ UNCHANGED docs
       ELSE /\ docs' = IF name # None THEN [docs EXCEPT ![d].name = name] ELSE docs
            /\ resp' = [Response("update", u, d, 200, "OK")
                          EXCEPT !.new_revision = docs[d].revision,
                                 !.target_status = docs[d].status]

(***************************************************************************)
(* delete_document                                                         *)
(***************************************************************************)
DeleteDocument(u, d, db_ok, written) ==
    /\ UNCHANGED <<nextId, inflight>>
    /\ IF d \notin DOMAIN docs
       THEN /\ emitted' = <<audit_log("document.delete.not_found", u, d, NoDetails,
                                      FALSE, 404, written)>>
            /\ resp' = Response("delete", u, d, 404, "NotFound")
            /\ UNCHANGED <<docs, versions>>
       ELSE IF ~can_delete_document(u, RoleOf(u), docs[d].status, docs[d].author_id)
       THEN /\ emitted' = <<audit_log("document.delete.denied", u, d, NoDetails,
                                      FALSE, 403, written)>>
            /\ resp' = Denied("delete", u, d, DeleteDenied)
            /\ UNCHANGED <<docs, versions>>
       ELSE IF ~db_ok
       THEN /\ emitted' = <<>>
            /\ resp' = Response("delete", u, d, 500, "ServerError")
            /\ UNCHANGED <<docs, versions>>
       ELSE \* the versions go with the document (cascade="all, delete-orphan")
            /\ docs' = Remove(docs, d)
            /\ versions' = Remove(versions, d)
            /\ emitted' = <<audit_log("document.delete", u, d, NoDetails,
                                      TRUE, 200, written)>>
            /\ resp' = Response("delete", u, d, 200, "OK")

(***************************************************************************)
(* promote_document, from the request to the point where the session holds *)
(* the modified row and the new version (lines 531-704).  Nothing is       *)
(* written yet: the handler reads the row once and keeps what it computed  *)
(* from that read until db.commit().                                       *)
(***************************************************************************)
FreeSlot ==
    CHOOSE r \in DOMAIN inflight :
        inflight[r] = Idle /\ \A q \in DOMAIN inflight : q < r => inflight[q] # Idle

\* PromoteRequest when the transition is validated before the permission check
PromoteRequest_legality_first(u, d, state, comment_in, increment_revision, written) ==
    LET target_text == Strip(Upper(state))
    IN
    /\ UNCHANGED <<docs, versions, nextId>>
    /\ IF d \notin DOMAIN docs
       THEN /\ emitted' = <<audit_log("document.promote.not_found", u, d, NoDetails,
                                      FALSE, 404, written)>>
            /\ resp' = Response("promote", u, d, 404, "NotFound")
            /\ UNCHANGED inflight
       ELSE IF ~IsStatusText(target_text)
       THEN \* DocumentStatus(target_status) raises ValueError while the arguments
            \* of can_promote_document are evaluated: nothing catches it
            /\ emitted' = <<>>
            /\ resp' = [Response("promote", u, d, 500, "ServerError")
                          EXCEPT !.previous_status = docs[d].status,
                                 !.target_text = target_text]
            /\ UNCHANGED inflight
       ELSE
         LET current_status == docs[d].status
             target_status == StatusOfText(target_text)
         IN
         IF target_status \notin valid_statuses
         THEN /\ emitted' = <<>>
              /\ resp' = [Response("promote", u, d, 400, "InvalidTargetStatus")
                            EXCEPT !.previous_status = current_status,
                                   !.target_text = target_text]
              /\ UNCHANGED inflight
         ELSE IF current_status \notin DOMAIN valid_transitions
         THEN /\ emitted' = <<>>
              /\ resp' = [Response("promote", u, d, 400, "InvalidCurrentStatus")
                            EXCEPT !.previous_status = current_status]
              /\ UNCHANGED inflight
         ELSE IF target_status \notin valid_transitions[current_status]
         THEN /\ emitted' = <<>>
              /\ resp' = [Response("promote", u, d, 400, "InvalidTransition")
                            EXCEPT !.previous_status = current_status,
                                   !.target_status = target_status]
              /\ UNCHANGED inflight
         ELSE IF current_status = target_status
         THEN /\ emitted' = <<>>
              /\ resp' = [Response("promote", u, d, 400, "SameState")
                            EXCEPT !.previous_status = current_status,
                                   !.target_status = target_status]
              /\ UNCHANGED inflight
         ELSE IF ~can_promote_document(u, RoleOf(u), docs[d].status, docs[d].author_id,
                                  target_status)
         THEN /\ emitted' = <<audit_log("document.promote.denied", u, d,
                                        [current_status |-> current_status,
                                         target_status |-> target_status],
                                        FALSE, 403, written)>>
              /\ resp' = [Denied("promote", u, d, PromoteDenied)
                            EXCEPT !.previous_status = current_status,
                                   !.target_status = target_status]
              /\ UNCHANGED inflight
         ELSE
           LET action_type == ActionType(current_status, target_status)
               new_rev == NewRevision(action_type, increment_revision, docs[d].revision)
               comment == AutoComment(comment_in, action_type, current_status,
                                      target_status, new_rev)
           IN
           /\ \E r \in DOMAIN inflight : inflight[r] = Idle
           /\ inflight' = [inflight EXCEPT ![FreeSlot] =
                  [pc |-> "commit", user |-> u, doc |-> d,
                   current_status |-> current_status,
                   loaded_revision |-> docs[d].revision,
                   target_status |-> target_status,
                   increment_revision |-> increment_revision,
                   new_rev |-> new_rev,
                   action_type |-> action_type,
                   workflow_comment |-> comment_in,
                   comment |-> comment]]
           /\ emitted' = <<>>
           /\ resp' = NoResp

PromoteRequest(u, d, state, comment_in, increment_revision, written) ==
    LET target_text == Strip(Upper(state))
    IN
    /\ UNCHANGED <<docs, versions, nextId>>
    /\ IF d \notin DOMAIN docs
       THEN /\ emitted' = <<audit_log("document.promote.not_found", u, d, NoDetails,
                                      FALSE, 404, written)>>
            /\ resp' = Response("promote", u, d, 404, "NotFound")
            /\ UNCHANGED inflight
       ELSE IF ~IsStatusText(target_text)
       THEN \* DocumentStatus(target_status) raises ValueError while the arguments
            \* of can_promote_document are evaluated: nothing catches it
            /\ emitted' = <<>>
            /\ resp' = [Response("promote", u, d, 500, "ServerError")
                          EXCEPT !.previous_status = docs[d].status,
                                 !.target_text = target_text]
            /\ UNCHANGED inflight
       ELSE
         LET current_status == docs[d].status
             target_status == StatusOfText(target_text)
         IN
         IF ~can_promote_document(u, RoleOf(u), docs[d].status, docs[d].author_id,
                                  target_status)
         THEN /\ emitted' = <<audit_log("document.promote.denied", u, d,
                                        [current_status |-> current_status,
                                         target_status |-> target_status],
                                        FALSE, 403, written)>>
              /\ resp' = [Denied("promote", u, d, PromoteDenied)
                            EXCEPT !.previous_status = current_status,
                                   !.target_status = target_status]
              /\ UNCHANGED inflight
         ELSE IF target_status \notin valid_statuses
         THEN /\ emitted' = <<>>
              /\ resp' = [Response("promote", u, d, 400, "InvalidTargetStatus")
                            EXCEPT !.previous_status = current_status,
                                   !.target_text = target_text]
              /\ UNCHANGED inflight
         ELSE IF current_status \notin DOMAIN valid_transitions
         THEN /\ emitted' = <<>>
              /\ resp' = [Response("promote", u, d, 400, "InvalidCurrentStatus")
                            EXCEPT !.previous_status = current_status]
              /\ UNCHANGED inflight
         ELSE IF target_status \notin valid_transitions[current_status]
         THEN /\ emitted' = <<>>
              /\ resp' = [Response("promote", u, d, 400, "InvalidTransition")
                            EXCEPT !.previous_status = current_status,
                                   !.target_status = target_status]
              /\ UNCHANGED inflight
         ELSE IF current_status = target_status
         THEN /\ emitted' = <<>>
              /\ resp' = [Response("promote", u, d, 400, "SameState")
                            EXCEPT !.previous_status = current_status,
                                   !.target_status = target_status]
              /\ UNCHANGED inflight
         ELSE
           LET action_type == ActionType(current_status, target_status)
               new_rev == NewRevision(action_type, increment_revision, docs[d].revision)
               comment == AutoComment(comment_in, action_type, current_status,
                                      target_status, new_rev)
           IN
           /\ \E r \in DOMAIN inflight : inflight[r] = Idle
           /\ inflight' = [inflight EXCEPT ![FreeSlot] =
                  [pc |-> "commit", user |-> u, doc |-> d,
                   current_status |-> current_status,
                   loaded_revision |-> docs[d].revision,
                   target_status |-> target_status,
                   increment_revision |-> increment_revision,
                   new_rev |-> new_rev,
                   action_type |-> action_type,
                   workflow_comment |-> comment_in,
                   comment |-> comment]]
           /\ emitted' = <<>>
           /\ resp' = NoResp

(***************************************************************************)
(* promote_document, db.commit() and what follows (lines 706-759).         *)
(*                                                                         *)
(* The session flushes an UPDATE of the row it loaded and an INSERT of the *)
(* version in one transaction.  The UPDATE sets the attributes whose value *)
(* differs from the loaded one (doc.status always, doc.revision when       *)
(* new_rev differs from the revision read) on the row as it is now in the  *)
(* table: nothing compares the row with what the handler read.             *)
(***************************************************************************)
\* the documents row after the flushed UPDATE
UpdatedRow(row, req) ==
    [row EXCEPT !.status = req.target_status,
                !.revision = IF req.new_rev # req.loaded_revision
                             THEN req.new_rev ELSE row.revision]

\* version = DocumentVersion(...)
NewVersion(req) ==
    [revision |-> req.new_rev, author_id |-> req.user,
     comment |-> req.comment, status |-> req.target_status]

\* Committed when the version row of the document is rewritten in place
Committed_rewrites_last_version(req) ==
    [docs |-> [docs EXCEPT ![req.doc] = UpdatedRow(docs[req.doc], req)],
     versions |-> [versions EXCEPT ![req.doc] =
                      IF versions[req.doc] = <<>>
                      THEN <<NewVersion(req)>>
                      ELSE [versions[req.doc] EXCEPT ![Len(versions[req.doc])] = NewVersion(req)]]]

\* the tables after db.commit() succeeded
Committed(req) ==
    [docs |-> [docs EXCEPT ![req.doc] = UpdatedRow(docs[req.doc], req)],
     versions |-> [versions EXCEPT ![req.doc] = Append(versions[req.doc], NewVersion(req))]]

\* RolledBack when the UPDATE of the row outlives the failed commit
RolledBack_update_kept(req) ==
    IF req.doc \in DOMAIN docs
    THEN [docs |-> [docs EXCEPT ![req.doc] = UpdatedRow(docs[req.doc], req)],
          versions |-> versions]
    ELSE [docs |-> docs, versions |-> versions]

\* the tables after db.commit() raised and db.rollback() ran
RolledBack(req) == [docs |-> docs, versions |-> versions]

PromoteFailed(req, error, written) ==
    /\ emitted' = <<audit_log("document.promote.failed", req.user, req.doc,
                              [error |-> error,
                               current_status |-> req.current_status,
                               target_status |-> req.target_status],
                              FALSE, 500, written)>>
    /\ resp' = [Response("promote", req.user, req.doc, 500, error)
                  EXCEPT !.previous_status = req.current_status,
                         !.target_status = req.target_status]

\* PromoteCommitFails when the success entry is written before db.commit()
PromoteCommitFails_after_success_audit(r, written) ==
    LET req == inflight[r] IN
    /\ req # Idle
    /\ inflight' = [inflight EXCEPT ![r] = Idle]
    /\ docs' = RolledBack(req).docs
    /\ versions' = RolledBack(req).versions
    /\ emitted' = <<audit_log("document.promote", req.user, req.doc,
                              [previous_status |-> req.current_status,
                               new_status |-> req.target_status,
                               new_revision |-> req.new_rev,
                               action_type |-> req.action_type,
                               comment |-> req.comment],
                              TRUE, 200, written),
                    audit_log("document.promote.failed", req.user, req.doc,
                              [error |-> "CommitFailed",
                               current_status |-> req.current_status,
                               target_status |-> req.target_status],
                              FALSE, 500, written)>>
    /\ resp' = [Response("promote", req.user, req.doc, 500, "CommitFailed")
                  EXCEPT !.previous_status = req.current_status,
                         !.target_status = req.target_status]
    /\ UNCHANGED nextId

\* db.commit() raises (the row is gone, or the database fails)
PromoteCommitFails(r, written) ==
    LET req == inflight[r] IN
    /\ req # Idle
    /\ inflight' = [inflight EXCEPT ![r] = Idle]
    /\ docs' = RolledBack(req).docs
    /\ versions' = RolledBack(req).versions
    /\ PromoteFailed(req, "CommitFailed", written)
    /\ UNCHANGED nextId

\* db.commit() succeeds, db.refresh() raises: the except branch runs after
\* the transaction is durable
PromoteRefreshFails(r, written) ==
    LET req == inflight[r] IN
    /\ req # Idle
    /\ req.doc \in DOMAIN docs
    /\ inflight' = [inflight EXCEPT ![r] = Idle]
    /\ docs' = Committed(req).docs
    /\ versions' = Committed(req).versions
    /\ PromoteFailed(req, "RefreshFailed", written)
    /\ UNCHANGED nextId

\* PromoteCommit when a failed write of the audit entry reaches the handler:
\* the transaction is taken back and the request answered with an error
PromoteCommit_audit_failure_undoes(r, written) ==
    LET req == inflight[r] IN
    /\ req # Idle
    /\ req.doc \in DOMAIN docs
    /\ inflight' = [inflight EXCEPT ![r] = Idle]
    /\ docs' = IF written THEN Committed(req).docs ELSE docs
    /\ versions' = IF written THEN Committed(req).versions ELSE versions
    /\ emitted' = <<audit_log("document.promote", req.user, req.doc,
                              [previous_status |-> req.current_status,
                               new_status |-> req.target_status,
                               new_revision |-> req.new_rev,
                               action_type |-> req.action_type,
                               comment |-> req.comment],
                              TRUE, 200, written)>>
    /\ resp' = [Response("promote", req.user, req.doc, IF written THEN 200 ELSE 500,
                         IF written THEN "OK" ELSE "AuditFailed")
                  EXCEPT !.previous_status = req.current_status,
                         !.target_status = req.target_status,
                         !.new_revision = req.new_rev,
                         !.action = req.action_type,
                         !.comment = req.comment]
    /\ UNCHANGED nextId

PromoteCommit(r, written) ==
    LET req == inflight[r] IN
    /\ req # Idle
    /\ req.doc \in DOMAIN docs
    /\ inflight' = [inflight EXCEPT ![r] = Idle]
    /\ docs' = Committed(req).docs
    /\ versions' = Committed(req).versions
    /\ emitted' = <<audit_log("document.promote", req.user, req.doc,
                              [previous_status |-> req.current_status,
                               new_status |-> req.target_status,
                               new_revision |-> req.new_rev,
                               action_type |-> req.action_type,
                               comment |-> req.comment],
                              TRUE, 200, written)>>
    /\ resp' = [Response("promote", req.user, req.doc, 200, "OK")
                  EXCEPT !.previous_status = req.current_status,
                         !.target_status = req.target_status,
                         !.new_revision = req.new_rev,
                         !.action = req.action_type,
                         !.comment = req.comment]
    /\ UNCHANGED nextId

(***************************************************************************)
(* The service.  A handler step leaves its response and its audit calls in *)
(* resp and emitted; Respond sends the response, and the next handler step *)
(* is taken after that.                                                    *)
(***************************************************************************)
Ready == resp = NoResp

Respond ==
    /\ resp # NoResp
    /\ resp' = NoResp
    /\ emitted' = <<>>
    /\ UNCHANGED <<docs, versions, nextId, inflight, decision>>

\* promotion requests of document d that wait for their commit
InflightOn(d) == {r \in Slots : inflight[r] # Idle /\ inflight[r].doc = d}

\* what goes wrong during an upload: nothing, saving the file, an unknown
\* project_id, or the database
UploadFaults == {"none", "file", "project", "db"}

Upload ==
    /\ Ready
    /\ UNCHANGED decision
    /\ \E u \in Users, name \in Names, fault \in UploadFaults, written \in BOOLEAN :
        UploadDocument(u, name, fault, written)

View ==
    /\ Ready
    /\ UNCHANGED decision
    /\ \E u \in Users, d \in DocIds, written \in BOOLEAN : GetDocument(u, d, written)

Download ==
    /\ Ready
    /\ UNCHANGED decision
    /\ \E u \in Users, d \in DocIds, file_present \in BOOLEAN, written \in BOOLEAN :
        DownloadDocument(u, d, file_present, written)

Update ==
    /\ Ready
    /\ UNCHANGED decision
    /\ \E u \in Users, d \in DocIds, name \in Names \cup {None}, db_ok \in BOOLEAN :
        UpdateDocument(u, d, name, db_ok)

Delete ==
    /\ Ready
    /\ UNCHANGED decision
    /\ \E u \in Users, d \in DocIds, db_ok \in BOOLEAN, written \in BOOLEAN :
        DeleteDocument(u, d, db_ok, written)

Promote ==
    /\ Ready
    /\ UNCHANGED decision
    /\ \E u \in Users, d \in DocIds, state \in StateInputs, comment_in \in CommentInputs,
          increment_revision \in BOOLEAN, written \in BOOLEAN :
        /\ d \in DOMAIN docs => Len(versions[d]) + Cardinality(InflightOn(d)) < MaxVersions
        /\ PromoteRequest(u, d, state, comment_in, increment_revision, written)

Commit ==
    /\ Ready
    /\ UNCHANGED decision
    /\ \E r \in Slots, written \in BOOLEAN : PromoteCommit(r, written)

CommitFails ==
    /\ Ready
    /\ UNCHANGED decision
    /\ \E r \in Slots, written \in BOOLEAN : PromoteCommitFails(r, written)

RefreshFails ==
    /\ Ready
    /\ UNCHANGED decision
    /\ \E r \in Slots, written \in BOOLEAN : PromoteRefreshFails(r, written)

Next ==
    \/ Upload
    \/ View
    \/ Download
    \/ Update
    \/ Delete
    \/ Promote
    \/ Commit
    \/ CommitFails
    \/ RefreshFails
    \/ Respond

\* every handler with every input, on an empty table or on a seeded one
Spec == Init /\ [][Next]_vars

(***************************************************************************)
(* One author takes an uploaded document through its lifecycle with        *)
(* promotion requests that overlap; the audit log is writable.             *)
(***************************************************************************)
UploadByAuthor ==
    /\ Ready
    /\ UNCHANGED decision
    /\ nextId < MaxDocs
    /\ UploadDocument("u-pm", "A-101.pdf", "none", TRUE)

PromoteByAuthor ==
    /\ Ready
    /\ UNCHANGED decision
    /\ \E d \in DocIds, s \in DocumentStatus, increment_revision \in BOOLEAN :
        /\ d \in DOMAIN docs => Len(versions[d]) + Cardinality(InflightOn(d)) < MaxHistory
        /\ PromoteRequest("u-pm", d, StatusText(s), <<>>, increment_revision, TRUE)

CommitByAuthor ==
    /\ Ready
    /\ UNCHANGED decision
    /\ \E r \in Slots : PromoteCommit(r, TRUE)

CommitFailsByAuthor ==
    /\ Ready
    /\ UNCHANGED decision
    /\ \E r \in Slots : PromoteCommitFails(r, TRUE)

NextLifecycle ==
    \/ UploadByAuthor
    \/ PromoteByAuthor
    \/ CommitByAuthor
    \/ CommitFailsByAuthor
    \/ Respond

SpecLifecycle == InitEmpty /\ [][NextLifecycle]_vars

(***************************************************************************)
(* A backlog: while the uploaded document is still Work in Progress its    *)
(* author sends promotion requests to Tender that read the row and then    *)
(* wait for their commit.  Each time one of them commits, the author       *)
(* promotes the document from Tender to Construction with a revision       *)
(* increment.  Of the interleavings of these requests only those are kept  *)
(* in which the first waiting request commits when all slots but one are   *)
(* taken, the waiting requests commit in the order of their slots and one  *)
(* increment is under way at a time.                                       *)
(***************************************************************************)
BacklogSlots == 1..MaxBacklog

InitBacklog ==
    /\ docs = <<>>
    /\ versions = <<>>
    /\ nextId = 0
    /\ inflight = [r \in BacklogSlots |-> Idle]
    /\ resp = NoResp
    /\ emitted = <<>>
    /\ decision = NoDecision

Queued == {r \in DOMAIN inflight : inflight[r] # Idle /\ inflight[r].target_status = TENDER}

Incrementing == {r \in DOMAIN inflight : inflight[r] # Idle /\ inflight[r].current_status = TENDER}

\* a request to Tender reads the Work-in-Progress row; one slot stays free
QueueTender ==
    /\ Ready
    /\ UNCHANGED decision
    /\ \E d \in DOMAIN docs :
        /\ docs[d].status = WIP
        /\ Cardinality(Queued) < MaxBacklog - 1
        /\ PromoteRequest("u-pm", d, StatusText(TENDER), <<>>, FALSE, TRUE)

\* the waiting request in the lowest slot commits
CommitQueued ==
    /\ Ready
    /\ UNCHANGED decision
    /\ Incrementing = {}
    /\ \E r \in Queued :
        /\ \A q \in Queued : r <= q
        /\ inflight[r].doc \in DOMAIN docs
        /\ docs[inflight[r].doc].status # TENDER
        /\ docs[inflight[r].doc].status = WIP => Cardinality(Queued) = MaxBacklog - 1
        /\ PromoteCommit(r, TRUE)

\* Tender to Construction with a revision increment
PromoteWithIncrement ==
    /\ Ready
    /\ UNCHANGED decision
    /\ Incrementing = {}
    /\ \E d \in DOMAIN docs :
        /\ docs[d].status = TENDER
        /\ PromoteRequest("u-pm", d, StatusText(CONSTRUCTION), <<>>, TRUE, TRUE)

CommitIncrement ==
    /\ Ready
    /\ UNCHANGED decision
    /\ \E r \in Incrementing : PromoteCommit(r, TRUE)

NextBacklog ==
    \/ UploadByAuthor
    \/ QueueTender
    \/ CommitQueued
    \/ PromoteWithIncrement
    \/ CommitIncrement
    \/ Respond

SpecBacklog == InitBacklog /\ [][NextBacklog]_vars

(***************************************************************************)
(* The predicates of rbac.py called on their own: with a user id and a     *)
(* role as the users table holds them (the handlers pass the role through  *)
(* UserRole(), which raises for a role outside the enumeration; here the   *)
(* predicates get such a role too), the status and the nullable author_id  *)
(* column of a documents row, and for can_promote_document a target        *)
(* status.  With them, on the same rows, the two callers of the predicates *)
(* outside the document handlers above: the dependency                     *)
(* require_document_permission and the row filter of get_documents, each   *)
(* run for a user of the users table.                                      *)
(***************************************************************************)
\* users.id; "" is an empty identifier
UserIdInputs == Users \cup {""}

\* users.role is free text: the three roles of UserRole and one of the other
\* roles the column may hold
RoleInputs == UserRole \cup {"Team Lead"}

\* documents.author_id: an id, the empty string, or NULL
AuthorColumn == Users \cup {"", None}

\* doc.author_id or ""
AuthorArg(author_id) == IF author_id = None \/ author_id = "" THEN "" ELSE author_id

Decision(fn, user_id, user_role, document_status, author_id, target_status, permission, result) ==
    [fn |-> fn, user_id |-> user_id, user_role |-> user_role,
     document_status |-> document_status, author_id |-> author_id,
     target_status |-> target_status, permission |-> permission, result |-> result]

HasPermission ==
    /\ decision = NoDecision
    /\ \E user_role \in RoleInputs, permission \in Permission :
          decision' = Decision("has_permission", "", user_role, "", "", "", permission,
                               has_permission(user_role, permission))
    /\ UNCHANGED <<docs, versions, nextId, inflight, resp, emitted>>

CanView ==
    /\ decision = NoDecision
    /\ \E user_id \in UserIdInputs, user_role \in RoleInputs,
          document_status \in DocumentStatus, author_id \in AuthorColumn :
          decision' = Decision("can_view_document", user_id, user_role, document_status,
                               author_id, "", "",
                               can_view_document(user_id, user_role, document_status,
                                                 AuthorArg(author_id)))
    /\ UNCHANGED <<docs, versions, nextId, inflight, resp, emitted>>

CanDownload ==
    /\ decision = NoDecision
    /\ \E user_id \in UserIdInputs, user_role \in RoleInputs,
          document_status \in DocumentStatus, author_id \in AuthorColumn :
          decision' = Decision("can_download_document", user_id, user_role, document_status,
                               author_id, "", "",
                               can_download_document(user_id, user_role, document_status,
                                                     AuthorArg(author_id)))
    /\ UNCHANGED <<docs, versions, nextId, inflight, resp, emitted>>

CanUpdate ==
    /\ decision = NoDecision
    /\ \E user_id \in UserIdInputs, user_role \in RoleInputs,
          document_status \in DocumentStatus, author_id \in AuthorColumn :
          decision' = Decision("can_update_document", user_id, user_role, document_status,
                               author_id, "", "",
                               can_update_document(user_id, user_role, document_status,
                                                   AuthorArg(author_id)))
    /\ UNCHANGED <<docs, versions, nextId, inflight, resp, emitted>>

CanDelete ==
    /\ decision = NoDecision
    /\ \E user_id \in UserIdInputs, user_role \in RoleInputs,
          document_status \in DocumentStatus, author_id \in AuthorColumn :
          decision' = Decision("can_delete_document", user_id, user_role, document_status,
                               author_id, "", "",
                               can_delete_document(user_id, user_role, document_status,
                                                   AuthorArg(author_id)))
    /\ UNCHANGED <<docs, versions, nextId, inflight, resp, emitted>>

CanPromote ==
    /\ decision = NoDecision
    /\ \E user_id \in UserIdInputs, user_role \in RoleInputs,
          document_status \in DocumentStatus, author_id \in AuthorColumn,
          target_status \in DocumentStatus :
          decision' = Decision("can_promote_document", user_id, user_role, document_status,
                               author_id, target_status, "",
                               can_promote_document(user_id, user_role, document_status,
                                                    AuthorArg(author_id), target_status))
    /\ UNCHANGED <<docs, versions, nextId, inflight, resp, emitted>>

(***************************************************************************)
(* middleware.require_document_permission: the dependency, run for a       *)
(* permission, the current user and a documents row that exists.           *)
(*   permitted     the value of the local after the if/elif chain          *)
(*   audit_action  the action of the audit_log call, "" when there is none *)
(*   outcome       "returned" (return current_user), "403", or             *)
(*                 "ValueError" when UserRole(current_user.role) raises    *)
(***************************************************************************)
require_document_permission(permission, user_id, user_role, document_status, author_id) ==
    IF user_role \notin UserRole
    THEN [permitted |-> FALSE, audit_action |-> "", outcome |-> "ValueError"]
    ELSE
      LET permitted ==
            CASE permission = "view" ->
                   can_view_document(user_id, user_role, document_status, AuthorArg(author_id))
              [] permission = "download" ->
                   can_download_document(user_id, user_role, document_status, AuthorArg(author_id))
              [] permission = "update" ->
                   can_update_document(user_id, user_role, document_status, AuthorArg(author_id))
              [] permission = "delete" ->
                   can_delete_document(user_id, user_role, document_status, AuthorArg(author_id))
              [] permission = "promote" -> TRUE
              [] OTHER -> FALSE
      IN
      IF permitted
      THEN [permitted |-> TRUE, audit_action |-> "", outcome |-> "returned"]
      ELSE [permitted |-> FALSE,
            audit_action |-> "document." \o permission \o ".denied",
            outcome |-> IF document_status = WIP /\ user_role # ADMIN
                        THEN IF author_id # user_id THEN "403" ELSE "returned"
                        ELSE "403"]

RequireDocumentPermission ==
    /\ decision = NoDecision
    /\ \E permission \in Permission, user_id \in Users, user_role \in RoleInputs,
          document_status \in DocumentStatus, author_id \in AuthorColumn :
          LET out == require_document_permission(permission, user_id, user_role,
                                                 document_status, author_id)
          IN decision' = [fn |-> "require_document_permission", user_id |-> user_id,
                          user_role |-> user_role, document_status |-> document_status,
                          author_id |-> author_id, target_status |-> "",
                          permission |-> permission,
                          permitted |-> out.permitted,
                          audit_action |-> out.audit_action,
                          outcome |-> out.outcome,
                          result |-> out.outcome = "returned"]
    /\ UNCHANGED <<docs, versions, nextId, inflight, resp, emitted>>

(***************************************************************************)
(* get_documents without status, discipline or search filter: is a stored  *)
(* row among the rows of the query?  The filter is evaluated by the        *)
(* database: author_id = :id is NULL, not true, for a row whose author_id  *)
(* is NULL, and a row is selected when the WHERE clause is true.  The user  *)
(* is a row of the users table: its id is never empty (a uuid4 string, or  *)
(* one of the ids of init_db.py).                                          *)
(***************************************************************************)
\* get_documents when no Work-in-Progress row is listed for a non-Admin
get_documents_without_own_wip(user_id, user_role, document_status, author_id) ==
    IF user_role = ADMIN
    THEN TRUE
    ELSE document_status # WIP

get_documents(user_id, user_role, document_status, author_id) ==
    IF user_role = ADMIN
    THEN TRUE
    ELSE \/ document_status # WIP
         \/ author_id # None /\ author_id = user_id

GetDocuments ==
    /\ decision = NoDecision
    /\ \E user_id \in Users, user_role \in UserRole,
          document_status \in DocumentStatus, author_id \in AuthorColumn :
          decision' = Decision("get_documents", user_id, user_role, document_status,
                               author_id, "", "",
                               get_documents(user_id, user_role, document_status, author_id))
    /\ UNCHANGED <<docs, versions, nextId, inflight, resp, emitted>>

\* the caller has the result; the next call starts from there
Return ==
    /\ decision # NoDecision
    /\ decision' = NoDecision
    /\ UNCHANGED <<docs, versions, nextId, inflight, resp, emitted>>

NextRbac ==
    \/ HasPermission
    \/ CanView
    \/ CanDownload
    \/ CanUpdate
    \/ CanDelete
    \/ CanPromote
    \/ RequireDocumentPermission
    \/ GetDocuments
    \/ Return

SpecRbac == InitEmpty /\ [][NextRbac]_vars


(***************************************************************************)
(* Properties.                                                             *)
(***************************************************************************)
Pending(r) == inflight[r] # Idle

\* request r ends in this step
Ends(r) == inflight[r] # Idle /\ inflight'[r] = Idle

\* request r is admitted in this step
Admitted(r) == inflight[r] = Idle /\ inflight'[r] # Idle

\* since r read the row, a request with another target has moved the document
\* on from the stage r read
StaleRead(r) ==
    /\ inflight[r].doc \in DOMAIN docs
    /\ docs[inflight[r].doc].status
           \notin {inflight[r].current_status, inflight[r].target_status}

LastVersion(d) == versions[d][Len(versions[d])]

\* the transition table of the lifecycle state machine, as specified
TransitionTable ==
    [s \in DocumentStatus |->
        CASE s = WIP -> {TENDER, CONSTRUCTION, INFO_APPROVAL}
          [] s = TENDER -> {CONSTRUCTION, INFO_APPROVAL, PUBLISHED}
          [] s = CONSTRUCTION -> {INFO_APPROVAL, PUBLISHED}
          [] s = INFO_APPROVAL -> {PUBLISHED}
          [] s = PUBLISHED -> {ARCHIVED}
          [] s = ARCHIVED -> {}]

\* C1: of two promotion requests that read the same source stage and have
\* different targets, one commits; the commit attempt of the other, made after
\* the winner moved the document on, is rejected and leaves the document and
\* its versions as the winner committed them.
C1_StaleCommitRejected ==
    [][\A r \in Slots :
          (Ends(r) /\ StaleRead(r)) =>
              /\ docs' = docs
              /\ versions' = versions
              /\ resp'.code # 200]_vars

\* C2: a document's stage and revision are those of its most recently created
\* version row.
C2_CurrentIsLatestVersion ==
    \A d \in DOMAIN docs :
        /\ versions[d] # <<>>
        /\ LastVersion(d).status = docs[d].status
        /\ LastVersion(d).revision = docs[d].revision

\* C3: once a document is stored as Archived, no step changes its stage.
C3_ArchivedIsTerminal ==
    [][\A d \in DOMAIN docs :
          (docs[d].status = ARCHIVED /\ d \in DOMAIN docs')
              => docs'[d].status = ARCHIVED]_vars

\* C4: a promotion request by a user who may promote the document is rejected
\* with "Invalid transition", leaving document and versions as they are, when
\* the pair (current stage, target stage) is not in the transition table, and
\* is accepted for commit when the pair is in the table.
C4_TableDecidesPermittedRequests ==
    [][/\ \A r \in Slots :
            Admitted(r) =>
                /\ inflight'[r].target_status
                       \in TransitionTable[docs[inflight'[r].doc].status]
                /\ docs' = docs /\ versions' = versions
       /\ (/\ resp = NoResp
           /\ resp'.op = "promote"
           /\ inflight' = inflight
           /\ resp'.doc \in DOMAIN docs
           /\ resp'.target_status \in DocumentStatus
           /\ can_promote_document(resp'.user, RoleOf(resp'.user),
                                   docs[resp'.doc].status, docs[resp'.doc].author_id,
                                   resp'.target_status))
          => /\ resp'.target_status \notin TransitionTable[docs[resp'.doc].status]
             /\ resp'.code = 400
             /\ resp'.detail = "InvalidTransition"
             /\ docs' = docs /\ versions' = versions]_vars

\* a same-stage request by the author of a WIP document was refused
C4_Witness ==
    /\ resp.op = "promote"
    /\ resp.detail = "InvalidTransition"
    /\ resp.previous_status = resp.target_status
    /\ resp.user = "u-pm"
    /\ resp.doc \in DOMAIN docs
    /\ docs[resp.doc].status = resp.previous_status
    /\ docs[resp.doc].author_id = "u-pm"

\* C5: every change of a document's stored stage is made by a request whose
\* user may promote the document at the stage it has, and leads to a stage the
\* transition table allows from the stage it has.
C5_BothGatesOnEveryStageChange ==
    [][\A d \in DOMAIN docs :
          (d \in DOMAIN docs' /\ docs'[d].status # docs[d].status) =>
              /\ docs'[d].status \in TransitionTable[docs[d].status]
              /\ \E r \in Slots :
                    /\ Ends(r)
                    /\ inflight[r].doc = d
                    /\ can_promote_document(inflight[r].user, RoleOf(inflight[r].user),
                                            docs[d].status, docs[d].author_id,
                                            docs'[d].status)]_vars

\* C6: a document operation that reached its authorization decision made
\* exactly one audit call, with success = false when the decision was a denial.
C6_OneAuditEventPerDecision ==
    (resp.op \in {"view", "download", "upload", "update", "delete", "promote"}
       /\ resp.code \in {200, 201, 403})
        => /\ Len(emitted) = 1
           /\ resp.code = 403 => ~emitted[1].success

\* C7: when db.commit() of a promotion fails, the request is answered with an
\* error and the document and its versions are as before the request.
C7_FailedCommitChangesNothing ==
    [][(resp = NoResp /\ resp'.op = "promote" /\ resp'.detail = "CommitFailed") =>
          /\ resp'.code = 500
          /\ docs' = docs
          /\ versions' = versions]_vars

\* a commit failed and the document is at the stage the request had read
C7_Witness ==
    /\ resp.op = "promote"
    /\ resp.detail = "CommitFailed"
    /\ resp.doc \in DOMAIN docs
    /\ docs[resp.doc].status = resp.previous_status
    /\ docs[resp.doc].status # resp.target_status

\* n as decimal digits, zero-padded to two
TwoDigits(n) == IF n < 10 THEN <<"0", DigitChars[n + 1]>> ELSE IntToStr(n)

\* C8 as stated: on publish, P or A (any case) becomes C with the same number,
\* any other prefix is kept and the number incremented, anything unparseable
\* becomes C01.
C8_PublishKeepsOtherPrefix(revision) ==
    LET m == RevisionMatch(revision) IN
    IF ~m.matched THEN <<"C", "0", "1">>
    ELSE IF Upper(m.prefix) \in {<<"P">>, <<"A">>}
         THEN <<"C">> \o TwoDigits(ParseInt(m.num))
    ELSE m.prefix \o TwoDigits(ParseInt(m.num) + 1)

C8_PublishUppercasesOtherPrefix(revision) ==
    LET m == RevisionMatch(revision) IN
    IF ~m.matched THEN <<"C", "0", "1">>
    ELSE IF Upper(m.prefix) \in {<<"P">>, <<"A">>}
         THEN <<"C">> \o TwoDigits(ParseInt(m.num))
    ELSE Upper(m.prefix) \o TwoDigits(ParseInt(m.num) + 1)

C9_IncrementOnRequest ==
    \A r \in Slots :
        (Pending(r) /\ inflight[r].action_type # "publish") =>
            LET old == inflight[r].loaded_revision
                new == inflight[r].new_rev
                m == RevisionMatch(old)
            IN  IF inflight[r].increment_revision
                THEN /\ m.matched => new = Upper(m.prefix) \o TwoDigits(ParseInt(m.num) + 1)
                     /\ ~m.matched => new = <<"P", "0", "1">>
                     /\ old = <<"p", "0", "2">> => new = <<"P", "0", "3">>
                     /\ old = <<"C", "9", "9">> => new = <<"C", "1", "0", "0">>
                ELSE new = old

\* an increment was requested on p02 for a transition that is not a publish
C9_Witness ==
    \E r \in Slots :
        /\ Pending(r)
        /\ inflight[r].action_type # "publish"
        /\ inflight[r].increment_revision
        /\ inflight[r].loaded_revision = <<"p", "0", "2">>
        /\ inflight[r].new_rev = <<"P", "0", "3">>

\* the classification of a (source, target) pair, as specified
Classification(source, target) ==
    CASE <<source, target>> \in {WIP} \X {TENDER, CONSTRUCTION, INFO_APPROVAL} -> "share"
      [] <<source, target>> \in {TENDER, CONSTRUCTION, INFO_APPROVAL} \X {PUBLISHED} -> "publish"
      [] <<source, target>> = <<PUBLISHED, ARCHIVED>> -> "archive"
      [] <<source, target>> \in {TENDER, CONSTRUCTION, INFO_APPROVAL}
                                    \X {CONSTRUCTION, INFO_APPROVAL} -> "coordinate"
      [] OTHER -> "null"

\* C10: the classification of an executed transition is the one the
\* (source, target) pair has in the table share / publish / archive /
\* coordinate / null.
C10_ClassificationBySourceAndTarget ==
    /\ \A r \in Slots :
          Pending(r) => inflight[r].action_type
                            = Classification(inflight[r].current_status,
                                             inflight[r].target_status)
    /\ (resp.op = "promote" /\ resp.code = 200)
          => resp.action = Classification(resp.previous_status, resp.target_status)

\* a committed Tender -> Published transition was classified publish
C10_Witness ==
    /\ resp.op = "promote"
    /\ resp.code = 200
    /\ resp.previous_status = TENDER
    /\ resp.target_status = PUBLISHED
    /\ resp.action = "publish"

\* the role-permission table, as specified
AllowsTable ==
    [r \in {ADMIN, PROJECT_MANAGER, VIEWER} |->
        CASE r = ADMIN -> {"view", "download", "upload", "update", "delete",
                           "promote", "share"}
          [] r = PROJECT_MANAGER -> {"view", "download", "upload", "update",
                                     "promote", "share"}
          [] r = VIEWER -> {"view", "download"}]

Allows(role, action) == role \in DOMAIN AllowsTable /\ action \in AllowsTable[role]

\* C11: can_view_document is true exactly when the role is Admin, or the stage
\* is not WIP, or the acting user id equals the author id it is called with.
C11_CanViewRule ==
    decision.fn = "can_view_document" =>
        decision.result = (\/ decision.user_role = ADMIN
                           \/ decision.document_status # WIP
                           \/ decision.user_id = AuthorArg(decision.author_id))

\* a Viewer was shown their own WIP document, one at a time: the decision at
\* hand is for the author
C11_Witness ==
    /\ decision.fn = "can_view_document"
    /\ decision.user_role = VIEWER
    /\ decision.document_status = WIP
    /\ decision.user_id = "u-viewer"
    /\ decision.author_id = "u-viewer"
    /\ decision.result

\* C12: for a WIP document whose author is absent or the empty string,
\* can_view_document, can_update_document and can_promote_document are false
\* for every acting user who is not Admin, an empty user id included.
C12_EmptyAuthorNeverMatches ==
    (/\ decision.fn \in {"can_view_document", "can_update_document",
                         "can_promote_document"}
     /\ decision.document_status = WIP
     /\ decision.author_id \in {None, ""}
     /\ decision.user_role # ADMIN)
        => ~decision.result

\* C13: can_update_document is true exactly when the role has the Update
\* permission and the role is Admin, or the stage is WIP and the acting user is
\* the author, or the stage is not WIP and the role is Project Manager.
C13_CanUpdateRule ==
    decision.fn = "can_update_document" =>
        decision.result =
            (/\ Allows(decision.user_role, "update")
             /\ \/ decision.user_role = ADMIN
                \/ /\ decision.document_status = WIP
                   /\ decision.user_id = AuthorArg(decision.author_id)
                \/ /\ decision.document_status # WIP
                   /\ decision.user_role = PROJECT_MANAGER)

\* a Viewer was refused the update of their own WIP document
C13_Witness ==
    /\ decision.fn = "can_update_document"
    /\ decision.user_role = VIEWER
    /\ decision.document_status = WIP
    /\ decision.user_id = "u-viewer"
    /\ decision.author_id = "u-viewer"
    /\ ~decision.result

\* C14: can_promote_document is true exactly when the role has the Promote
\* permission and the ownership rule of can_update_document holds, and it gives
\* the same result for every target stage.
C14_CanPromoteRule ==
    decision.fn = "can_promote_document" =>
        /\ decision.result =
              (/\ Allows(decision.user_role, "promote")
               /\ \/ decision.user_role = ADMIN
                  \/ /\ decision.document_status = WIP
                     /\ decision.user_id = AuthorArg(decision.author_id)
                  \/ /\ decision.document_status # WIP
                     /\ decision.user_role = PROJECT_MANAGER)
        /\ \A target_status \in DocumentStatus :
              can_promote_document(decision.user_id, decision.user_role,
                                   decision.document_status,
                                   AuthorArg(decision.author_id), target_status)
                  = decision.result

\* a Project Manager may archive a Published document of another author
C14_Witness ==
    /\ decision.fn = "can_promote_document"
    /\ decision.user_role = PROJECT_MANAGER
    /\ decision.user_id = "u-pm"
    /\ decision.author_id = "u-viewer"
    /\ decision.document_status = PUBLISHED
    /\ decision.target_status = ARCHIVED
    /\ decision.result

\* C15: can_delete_document is true exactly for Admin, whatever the stage and
\* the author; a delete request on an existing document by a user who is not
\* Admin is answered 403 and leaves the document and its versions in place.
C15_DeleteIsAdminOnly ==
    [][(resp = NoResp /\ resp'.op = "delete" /\ resp'.doc \in DOMAIN docs) =>
          LET u == resp'.user
              row == docs[resp'.doc]
          IN  /\ can_delete_document(u, RoleOf(u), row.status, row.author_id)
                    = (RoleOf(u) = ADMIN)
              /\ RoleOf(u) # ADMIN =>
                    /\ resp'.code = 403
                    /\ docs' = docs
                    /\ versions' = versions
              /\ RoleOf(u) = ADMIN => resp'.code # 403]_vars

\* a Project Manager was refused the deletion of a document they authored
C15_Witness ==
    /\ resp.op = "delete"
    /\ resp.code = 403
    /\ resp.user = "u-pm"
    /\ resp.doc \in DOMAIN docs
    /\ docs[resp.doc].author_id = "u-pm"
    /\ versions[resp.doc] # <<>>

\* C16: has_permission gives the role-permission table on the 21 pairs of a
\* known role and a permission, and False for any other role.
C16_AllowsIsTheTable ==
    decision.fn = "has_permission" =>
        /\ decision.result = Allows(decision.user_role, decision.permission)
        /\ decision.user_role \notin {ADMIN, PROJECT_MANAGER, VIEWER} => ~decision.result
        /\ Cardinality({ADMIN, PROJECT_MANAGER, VIEWER} \X Permission) = 21
        /\ \A role \in {ADMIN, PROJECT_MANAGER, VIEWER}, action \in Permission :
              has_permission(role, action) =
                  CASE role = ADMIN -> TRUE
                    [] role = PROJECT_MANAGER -> action # "delete"
                    [] role = VIEWER -> action \in {"view", "download"}

\* has_permission was asked about a role that is not in the table and said no
C16_Witness ==
    /\ decision.fn = "has_permission"
    /\ decision.user_role = "Team Lead"
    /\ decision.permission = "view"
    /\ ~decision.result

\* C17: a handler step whose audit entry could not be written ends as the same
\* step with a written entry does: a permitted view, download, upload, delete
\* or promotion is answered with its normal result and keeps its committed
\* change, and a refusal or failure is answered with the status it audited and
\* changes nothing it had not changed.
C17_AuditWriteFailureSwallowed ==
    [][(resp = NoResp /\ emitted' # <<>> /\ ~emitted'[1].written) =>
          LET e == emitted'[1] IN
          /\ Len(emitted') = 1
          /\ resp'.op # "none"
          /\ e.action = "document.view" => resp'.code = 200
          /\ e.action = "document.download" =>
                resp'.code = 200 \/ resp'.detail = "FileNotFound"
          /\ e.action = "document.upload" =>
                /\ resp'.code = 201
                /\ resp'.doc \in DOMAIN docs' \ DOMAIN docs
                /\ Len(versions'[resp'.doc]) = 1
          /\ e.action = "document.delete" =>
                /\ resp'.code = 200
                /\ resp'.doc \in DOMAIN docs \ DOMAIN docs'
          /\ e.action = "document.promote" =>
                /\ resp'.code = 200
                /\ docs'[resp'.doc].status = resp'.target_status
                /\ Len(versions'[resp'.doc]) = Len(versions[resp'.doc]) + 1
                /\ versions'[resp'.doc][Len(versions'[resp'.doc])].status
                       = resp'.target_status
          /\ e.action = "document.promote.failed" /\ resp'.detail = "RefreshFailed" =>
                docs'[resp'.doc].status = resp'.target_status
          /\ ~e.success =>
                /\ resp'.code = e.status_code
                /\ resp'.detail # "RefreshFailed" => (docs' = docs /\ versions' = versions)]_vars

\* a promotion was committed and answered 200 although its audit entry was
\* not written
C17_Witness ==
    /\ resp.op = "promote"
    /\ resp.code = 200
    /\ emitted # <<>>
    /\ ~emitted[1].written
    /\ docs[resp.doc].status = resp.target_status
    /\ LastVersion(resp.doc).status = resp.target_status

\* the cause a denial text names
ReasonOf(message) ==
    CASE message = UploadDenied -> "role-insufficient"
      [] message = DeleteDenied -> "role-insufficient"
      [] message = ViewDenied -> "wip-not-owner"
      [] message = DownloadDenied -> "wip-not-owner"
      [] message = UpdateDenied -> "wip-not-owner"
      [] message = PromoteDenied -> "wip-not-owner"
      [] OTHER -> "none"

\* C18: the reason of a denial is role-insufficient exactly when the
\* role-permission table refuses the action to the role, and it is
\* wip-not-owner only when the document is WIP and the acting user is neither
\* its author nor Admin.
C18_DenialReasonDistinguishesCause ==
    (resp.code = 403 /\ (resp.op = "upload" \/ resp.doc \in DOMAIN docs)) =>
        LET role == RoleOf(resp.user)
            reason == ReasonOf(resp.message)
        IN  /\ reason \in {"role-insufficient", "wip-not-owner", "not-promotable-by-role"}
            /\ (reason = "role-insufficient") <=> ~Allows(role, resp.op)
            /\ (reason = "wip-not-owner") =>
                  /\ docs[resp.doc].status = WIP
                  /\ docs[resp.doc].author_id # resp.user
                  /\ role # ADMIN

\* sub occurs in text as consecutive pieces
Contains(text, sub) ==
    \E i \in 1..(Len(text) - Len(sub) + 1) : SubSeq(text, i, i + Len(sub) - 1) = sub

\* the words a default comment opens with, by classification
DefaultCommentOpening(classification) ==
    CASE classification = "share" -> "Shared for coordination"
      [] classification = "publish" -> "Published for construction"
      [] classification = "archive" -> "Archived"
      [] classification = "coordinate" -> "Coordinated"
      [] OTHER -> "Status changed from "

\* the human-readable name of a stage
StageName(s) ==
    CASE s = WIP -> "Work in Progress"
      [] s = TENDER -> "Tender/Shared"
      [] s = CONSTRUCTION -> "Construction"
      [] s = INFO_APPROVAL -> "Information Approval"
      [] s = PUBLISHED -> "Published"
      [] s = ARCHIVED -> "Archived"

\* C19: a promotion committed for a request without comment stores a version
\* whose comment is the default of the transition's classification followed by
\* the name of the target stage (for a given classification, target and
\* revision always the same text); a Project Manager's promotion of a document
\* at Information Approval, revision P03, to Published makes the stage
\* Published, the revision C03, the classification publish, and the comment
\* contains "Published for construction" and "Rev C03".
C19_DefaultCommentSynthesized ==
    [][\A r \in Slots :
          (Ends(r) /\ resp'.code = 200 /\ inflight[r].workflow_comment = <<>>) =>
              LET req == inflight[r]
                  d == req.doc
                  stored == versions'[d][Len(versions'[d])]
                  class == Classification(req.current_status, req.target_status)
              IN  /\ Len(versions'[d]) = Len(versions[d]) + 1
                  /\ stored.comment = resp'.comment
                  /\ class # "null"
                  /\ SubSeq(stored.comment, 1, 3)
                        = <<DefaultCommentOpening(class), " - ", StageName(req.target_status)>>
                  /\ class # "publish" => Len(stored.comment) = 3
                  /\ class = "publish" =>
                        stored.comment = SubSeq(stored.comment, 1, 3)
                                           \o <<" (", "Rev ">> \o stored.revision \o <<")">>
                  /\ (/\ RoleOf(req.user) = PROJECT_MANAGER
                      /\ req.current_status = INFO_APPROVAL
                      /\ req.loaded_revision = <<"P", "0", "3">>
                      /\ req.target_status = PUBLISHED) =>
                        /\ docs'[d].status = PUBLISHED
                        /\ docs'[d].revision = <<"C", "0", "3">>
                        /\ stored.status = PUBLISHED
                        /\ stored.revision = <<"C", "0", "3">>
                        /\ resp'.action = "publish"
                        /\ Contains(stored.comment, <<"Published for construction">>)
                        /\ Contains(stored.comment, <<"Rev ", "C", "0", "3">>)]_vars

\* the Project Manager published the document at Information Approval, P03,
\* without a comment
C19_Witness ==
    /\ resp.op = "promote"
    /\ resp.code = 200
    /\ resp.user = "u-pm"
    /\ resp.previous_status = INFO_APPROVAL
    /\ resp.target_status = PUBLISHED
    /\ resp.new_revision = <<"C", "0", "3">>
    /\ docs[resp.doc].status = PUBLISHED
    /\ docs[resp.doc].revision = <<"C", "0", "3">>
    /\ LastVersion(resp.doc).comment
          = <<"Published for construction", " - ", "Published", " (", "Rev ", "C", "0", "3", ")">>

\* C20: an upload answered 201 has created one document, at WIP with revision
\* P01 and the uploader as author, and one version row for it with the same
\* stage and revision; an upload by a user whose role lacks the Upload
\* permission is answered 403 and creates neither.
C20_UploadCreatesWipP01 ==
    [][(resp = NoResp /\ resp'.op = "upload") =>
          /\ resp'.code = 201 =>
                LET d == resp'.doc IN
                /\ DOMAIN docs' = DOMAIN docs \cup {d}
                /\ d \notin DOMAIN docs
                /\ \A other \in DOMAIN docs :
                      docs'[other] = docs[other] /\ versions'[other] = versions[other]
                /\ docs'[d].status = WIP
                /\ docs'[d].revision = <<"P", "0", "1">>
                /\ docs'[d].author_id = resp'.user
                /\ Len(versions'[d]) = 1
                /\ versions'[d][1].status = docs'[d].status
                /\ versions'[d][1].revision = docs'[d].revision
                /\ versions'[d][1].author_id = resp'.user
          /\ resp'.code # 201 => (docs' = docs /\ versions' = versions)
          /\ ~Allows(RoleOf(resp'.user), "upload") => resp'.code = 403
          /\ resp'.code = 403 => RoleOf(resp'.user) = VIEWER]_vars

\* the Project Manager's upload was stored
C20_Witness ==
    /\ resp.op = "upload"
    /\ resp.code = 201
    /\ resp.user = "u-pm"
    /\ docs[resp.doc].status = WIP
    /\ docs[resp.doc].revision = <<"P", "0", "1">>
    /\ Len(versions[resp.doc]) = 1

\* C21: an update request, answered 200, 403 or otherwise, leaves the stage,
\* the revision and the author of every document and all version rows as
\* they are.
C21_MetadataEditFrame ==
    [][(resp = NoResp /\ resp'.op = "update") =>
          /\ DOMAIN docs' = DOMAIN docs
          /\ \A d \in DOMAIN docs :
                /\ docs'[d].status = docs[d].status
                /\ docs'[d].revision = docs[d].revision
                /\ docs'[d].author_id = docs[d].author_id
          /\ versions' = versions
          /\ resp'.code = 200 =>
                /\ resp'.target_status = docs[resp'.doc].status
                /\ resp'.new_revision = docs[resp'.doc].revision]_vars

\* the Project Manager renamed a document at Tender
C21_Witness ==
    /\ resp.op = "update"
    /\ resp.code = 200
    /\ resp.user = "u-pm"
    /\ docs[resp.doc].name = "A-102.pdf"
    /\ docs[resp.doc].status = TENDER

\* C22: while a document exists its version rows are only ever appended to:
\* every step keeps the rows it had, in order and unchanged, and the sequence
\* grows only in a step where db.commit() of a promotion of that document
\* succeeded, by one row carrying the target stage, the new revision, the
\* acting user and the comment of that promotion.
C22_VersionsAppendOnly ==
    [][\A d \in DOMAIN docs \cap DOMAIN docs' :
          /\ Len(versions'[d]) >= Len(versions[d])
          /\ SubSeq(versions'[d], 1, Len(versions[d])) = versions[d]
          /\ versions'[d] # versions[d] =>
                \E r \in Slots :
                    /\ Ends(r)
                    /\ inflight[r].doc = d
                    /\ resp'.op = "promote"
                    /\ resp'.detail # "CommitFailed"
                    /\ docs'[d].status = inflight[r].target_status
                    /\ versions'[d] =
                          Append(versions[d],
                                 [revision |-> inflight[r].new_rev,
                                  author_id |-> inflight[r].user,
                                  comment |-> inflight[r].comment,
                                  status |-> inflight[r].target_status])]_vars

\* a committed promotion with revision increment of a document that had a
\* version row: the old row is still first, the new one second
C22_Witness ==
    /\ resp.op = "promote"
    /\ resp.code = 200
    /\ resp.doc \in DOMAIN versions
    /\ Len(versions[resp.doc]) = 2
    /\ versions[resp.doc][1].revision # versions[resp.doc][2].revision
    /\ versions[resp.doc][2].status = resp.target_status
    /\ versions[resp.doc][2].revision = resp.new_revision
    /\ versions[resp.doc][2].author_id = resp.user

\* C23: the revision of every document that was uploaded and then only
\* promoted is one upper-case letter followed by exactly two decimal digits.
C23_RevisionLetterAndTwoDigits ==
    \A d \in DOMAIN docs :
        /\ Len(docs[d].revision) = 3
        /\ docs[d].revision[1] \in Range(UpperCase)
        /\ docs[d].revision[2] \in Range(DigitChars)
        /\ docs[d].revision[3] \in Range(DigitChars)

\* C24: the permission check of promote_document comes before the checks of
\* the transition: a request naming one of the six stages, made by a user
\* whom can_promote_document refuses, is answered 403 whatever the target, and
\* the answer "Invalid transition" only goes to a user who passed the
\* permission check.
C24_PermissionBeforeLegality ==
    [][(/\ resp = NoResp
        /\ resp'.op = "promote"
        /\ resp'.doc \in DOMAIN docs
        /\ \A r \in Slots : ~Ends(r)) =>
          LET d == resp'.doc
              u == resp'.user
              permitted == /\ Allows(RoleOf(u), "promote")
                           /\ \/ RoleOf(u) = ADMIN
                              \/ docs[d].status = WIP /\ docs[d].author_id = u
                              \/ docs[d].status # WIP /\ RoleOf(u) = PROJECT_MANAGER
          IN /\ (resp'.target_status \in DocumentStatus /\ ~permitted) =>
                    /\ resp'.code = 403
                    /\ resp'.detail = "PermissionDenied"
                    /\ Len(emitted') = 1
                    /\ emitted'[1].action = "document.promote.denied"
             /\ resp'.detail = "InvalidTransition" => permitted
             /\ resp'.code = 403 => ~permitted]_vars

\* a Viewer asked to take a Published document back to Work in Progress, a
\* transition the table does not have, and was told 403
C24_Witness ==
    /\ resp.op = "promote"
    /\ resp.user = "u-viewer"
    /\ resp.code = 403
    /\ resp.previous_status = PUBLISHED
    /\ resp.target_status = WIP
    /\ WIP \notin valid_transitions[PUBLISHED]

\* an Admin was told "Invalid transition"
C24_WitnessInvalidTransition ==
    /\ resp.op = "promote"
    /\ resp.user = "u-admin"
    /\ resp.detail = "InvalidTransition"

\* C25: whenever the check computed by require_document_permission is false,
\* the dependency does not return the user to the protected operation.
C25_GateRaisesWhenCheckFails ==
    (decision.fn = "require_document_permission" /\ ~decision.permitted) =>
        decision.outcome # "returned"

\* a Project Manager's gate for Delete on their own Work-in-Progress document:
\* the check is false and the user is returned
C25_ReturnedThoughRefused ==
    /\ decision.fn = "require_document_permission"
    /\ decision.permission = "delete"
    /\ decision.user_role = PROJECT_MANAGER
    /\ decision.document_status = WIP
    /\ decision.author_id = decision.user_id
    /\ ~decision.permitted
    /\ decision.audit_action = "document.delete.denied"
    /\ decision.outcome = "returned"

\* C27: a stored row is among the rows of the unfiltered list exactly when
\* can_view_document is true for the user and that row.
C27_ListAppliesCanView ==
    decision.fn = "get_documents" =>
        decision.result = can_view_document(decision.user_id, decision.user_role,
                                            decision.document_status,
                                            AuthorArg(decision.author_id))

\* a Work-in-Progress row without author is not listed for a Project Manager
C27_Witness ==
    /\ decision.fn = "get_documents"
    /\ decision.user_role = PROJECT_MANAGER
    /\ decision.document_status = WIP
    /\ decision.author_id = None
    /\ ~decision.result

\* a Viewer's own Work-in-Progress row is listed
C27_WitnessOwnWip ==
    /\ decision.fn = "get_documents"
    /\ decision.user_role = VIEWER
    /\ decision.document_status = WIP
    /\ decision.author_id = decision.user_id
    /\ decision.result

\* C26: a promotion request for an existing document whose target, after
\* upper() and strip(), is not one of S0..S5 is answered 400 "Invalid target
\* status" and leaves the document and its version rows as they are.
C26_InvalidTargetIs400 ==
    [][(/\ resp = NoResp
        /\ resp'.op = "promote"
        /\ resp'.doc \in DOMAIN docs
        /\ resp'.target_text # <<>>
        /\ ~IsStatusText(resp'.target_text)) =>
          /\ resp'.code = 400
          /\ resp'.detail = "InvalidTargetStatus"
          /\ UNCHANGED <<docs, versions>>]_vars

StageRank(s) == CHOOSE i \in DOMAIN StatusOrder : StatusOrder[i] = s

\* C28: the stored stage of a document never moves to an earlier stage: every
\* committed promotion leaves the document at a later stage in the order
\* S0 < S1 < S2 < S3 < S4 < S5 than it was, so that a document has at most
\* five committed transitions.
C28_StageOnlyMovesForward ==
    [][\A d \in DOMAIN docs \cap DOMAIN docs' :
          /\ StageRank(docs'[d].status) >= StageRank(docs[d].status)
          /\ (\E r \in Slots : Ends(r) /\ inflight[r].doc = d /\ resp'.code = 200) =>
                StageRank(docs'[d].status) > StageRank(docs[d].status)
          /\ Len(versions'[d]) <= 6]_vars

\* C29: the revision of an uploaded and then only promoted document starts
\* with C exactly when its stage is Published or Archived, and with P exactly
\* when its stage is one of the four earlier stages.
C29_PrefixFollowsStage ==
    \A d \in DOMAIN docs :
        /\ docs[d].revision # <<>>
        /\ docs[d].revision[1] = "C" <=> docs[d].status \in {PUBLISHED, ARCHIVED}
        /\ docs[d].revision[1] = "P" <=>
              docs[d].status \in {WIP, TENDER, CONSTRUCTION, INFO_APPROVAL}

SuccessEvents(log) ==
    {i \in DOMAIN log : log[i].action = "document.promote" /\ log[i].success}

\* C30: an audit entry document.promote with success = true is made only in
\* a step in which db.commit() of that promotion succeeded, after the stage
\* update and the new version row are in the tables, and its details are the
\* stage the request read, the stage and the revision it committed, its
\* classification and its comment; a promotion whose db.commit() fails makes
\* one entry with success = false and no success entry.
C30_SuccessAuditAfterCommit ==
    [][resp = NoResp =>
          /\ SuccessEvents(emitted') # {} =>
                /\ resp'.op = "promote"
                /\ resp'.code = 200
                /\ Len(emitted') = 1
                /\ \E r \in Slots :
                      LET req == inflight[r]
                          e == emitted'[1]
                      IN /\ Ends(r)
                         /\ req.doc \in DOMAIN docs'
                         /\ e.resource_id = req.doc
                         /\ e.user_id = req.user
                         /\ docs'[req.doc].status = e.details.new_status
                         /\ e.details.new_status = req.target_status
                         /\ e.details.previous_status = req.current_status
                         /\ e.details.action_type = req.action_type
                         /\ versions'[req.doc] =
                               Append(versions[req.doc],
                                      [revision |-> e.details.new_revision,
                                       author_id |-> e.user_id,
                                       comment |-> e.details.comment,
                                       status |-> e.details.new_status])
          /\ (resp'.op = "promote" /\ resp'.detail = "CommitFailed") =>
                /\ Len(emitted') = 1
                /\ ~emitted'[1].success
                /\ emitted'[1].action = "document.promote.failed"
                /\ SuccessEvents(emitted') = {}
                /\ docs' = docs /\ versions' = versions
          /\ (resp'.op = "promote" /\ resp'.code = 200) =>
                SuccessEvents(emitted') = {1}]_vars

\* a publication was committed and audited: the entry names the stage read,
\* Published, and the C revision of the new version row
C30_Witness ==
    /\ resp.op = "promote"
    /\ resp.code = 200
    /\ Len(emitted) = 1
    /\ emitted[1].action = "document.promote"
    /\ emitted[1].success
    /\ emitted[1].details.new_status = PUBLISHED
    /\ emitted[1].details.action_type = "publish"
    /\ docs[resp.doc].status = PUBLISHED
    /\ LastVersion(resp.doc).revision = emitted[1].details.new_revision
    /\ emitted[1].details.new_revision[1] = "C"

\* db.commit() of a promotion failed: one entry, success = false
C30_WitnessCommitFailed ==
    /\ resp.op = "promote"
    /\ resp.detail = "CommitFailed"
    /\ Len(emitted) = 1
    /\ ~emitted[1].success

====
